---- MODULE Spec2Model ----
(***************************************************************************)
(* A model of esp-openthread's platform adaptation layer (src/lib.rs):     *)
(* the process-wide registry (RADIO, NETWORK_SETTINGS, CHANGE_CALLBACK),   *)
(* the cooperative loop (process, run_tasklets), the receive pipeline with *)
(* its static scratch frame, the state-change dispatcher, the             *)
(* operational-dataset marshalling and the UDP socket.                     *)
(*                                                                         *)
(* Rust arrays are 0-based, TLA+ sequences 1-based: Rust's data[k] is      *)
(* data[k + 1] here.  Option<T> is a sequence of length 0 (None) or 1.     *)
(* A panic (unwrap on None, index or slice out of range) halts the         *)
(* program: it is recorded in fault, and no action is enabled after it.    *)
(***************************************************************************)
EXTENDS Integers, Sequences, FiniteSets, TLC

VARIABLES
    live,               \* number of OpenThread values constructed and not yet dropped
    RADIO,              \* static RADIO: Option<&mut Ieee802154>
    NETWORK_SETTINGS,   \* static NETWORK_SETTINGS: Option<NetworkSettings>
    CHANGE_CALLBACK,    \* static CHANGE_CALLBACK: Option<&mut dyn FnMut(ChangedFlags)>
    RCV_FRAME_PSDU,     \* static mut RCV_FRAME_PSDU: [u8; 127]
    RCV_FRAME,          \* static mut RCV_FRAME: otRadioFrame (the fields process writes)
    rxQueue,            \* the radio driver's queue of received raw frames
    timerDue,           \* the timer adapter's "deadline elapsed" mark, set by its interrupt
    millis,             \* the timer adapter's monotonic millisecond counter
    engineCb,           \* the engine holds change_callback as its state-changed callback
    taskletsPending,    \* the engine's pending-work flag (otTaskletsArePending)
    pc,                 \* position of the main context
    fault,              \* "none", or the panic that halted the program
    call,               \* history: the current (or last) process() call
    dispatch,           \* history: the last run of change_callback
    setLog,             \* history: the arguments of the last two set_change_callback calls
    dsArg,              \* the OperationalDataset a set_active_dataset call is given
    dsEngine,           \* the raw dataset the engine was handed (Option)
    dsResult,           \* the Result of the set_active_dataset call (Option)
    dsStored,           \* the engine's active dataset, as the engine stores it (Option)
    dsRead,             \* the Result of the get_active_dataset call (Option)
    sock,               \* the UdpSocket value (its fields while it is alive)
    udp,                \* the engine's side of the socket: registered, bound port
    pool,               \* engine messages allocated and neither accepted nor freed
    delivered,          \* history: how many datagrams the handler got since receive() last took one, and the last
    op,                 \* history: the last completed operation that calls the engine (Option)
    borrows,            \* what the main context holds, and what nested code borrowed meanwhile
    addrs,              \* the engine's unicast-address list, and the caller's capacity N
    addrOut             \* what ipv6_get_unicast_addresses returned (Option)

vars == <<live, RADIO, NETWORK_SETTINGS, CHANGE_CALLBACK, RCV_FRAME_PSDU, RCV_FRAME,
          rxQueue, timerDue, millis, engineCb, taskletsPending, pc, fault,
          call, dispatch, setLog, dsArg, dsEngine, dsResult, dsStored, dsRead,
          sock, udp, pool, delivered, op, borrows, addrs, addrOut>>

registryVars == <<RADIO, NETWORK_SETTINGS, CHANGE_CALLBACK>>
scratchVars  == <<RCV_FRAME_PSDU, RCV_FRAME>>
envVars      == <<rxQueue, timerDue, millis>>
datasetVars  == <<dsArg, dsEngine, dsResult, dsStored, dsRead>>
socketVars   == <<sock, udp, pool, delivered>>
addrVars     == <<addrs, addrOut>>

(***************************************************************************)
(* Bounds of the model.                                                    *)
(***************************************************************************)
MaxInstances == 2   \* OpenThread values alive at once
MaxQueue     == 2   \* frames buffered in the radio driver
MaxPerCall   == 3   \* frames one process() call gets to see
MaxMillis    == 1   \* ticks of the millisecond counter

None == <<>>
Some(x) == <<x>>

(***************************************************************************)
(* Engine statuses and the layer's Result.                                 *)
(***************************************************************************)
otError_OT_ERROR_NONE == 0

\* Status codes the engine is let to answer with (OT_ERROR_NONE,
\* OT_ERROR_FAILED, OT_ERROR_INVALID_ARGS).
EngineStatuses == {otError_OT_ERROR_NONE, 1, 7}

Ok == [ok |-> TRUE, code |-> 0]

InternalError(code) == [ok |-> FALSE, code |-> code]

\* checked!(value)
checked(value) == IF value # 0 THEN InternalError(value) ELSE Ok

(***************************************************************************)
(* Sizes.                                                                  *)
(***************************************************************************)
RCV_FRAME_PSDU_LEN == 127
\* esp_ieee802154's RawReceived.data: the length byte, the PSDU and one spare byte
FRAME_SIZE == RCV_FRAME_PSDU_LEN + 2

U8(n) == n % 256
AsI8(b) == IF b >= 128 THEN b - 256 ELSE b

(***************************************************************************)
(* Inputs of the environment.                                              *)
(***************************************************************************)
\* A raw frame of the driver: data[0] is the length prefix, the payload follows.
RawFrame(len, seed, ch) ==
    [data |-> [i \in 1..FRAME_SIZE |->
                 IF i = 1 THEN len
                 ELSE IF i <= len + 1 THEN U8(seed + i) ELSE 0],
     channel |-> ch]

RawFrames ==
    { RawFrame(3, 200, 11), RawFrame(RCV_FRAME_PSDU_LEN, 50, 26),
      RawFrame(0, 0, 11), RawFrame(RCV_FRAME_PSDU_LEN + 1, 7, 20) }

Callbacks == {"cb1", "cb2"}

\* NetworkSettings::default() (derive(Default)) and one configured value
DefaultSettings ==
    [promiscuous |-> FALSE, ext_address |-> 0, short_address |-> 0,
     pan_id |-> 0, channel |-> 0]
SettingsInputs ==
    { DefaultSettings,
      [promiscuous |-> TRUE, ext_address |-> 1, short_address |-> 2,
       pan_id |-> 4660, channel |-> 15] }

\* Flag words the engine passes to its state-changed callback (bit 30 has no
\* named flag; TLC's integers end at 2^31 - 1, so bit 31 is not drawn)
FlagWords == {0, 1, 516, 536870912, 1073741824, 1073742340}

(***************************************************************************)
(* ChangedFlags (bitflags!).                                               *)
(***************************************************************************)
ChangedFlagsConsts ==
    { 1, 2, 4, 8, 16, 32, 64, 128, 256, 512, 1024, 2048, 4096, 8192, 16384, 32768,
      65536, 131072, 262144, 524288, 1048576, 2097152, 4194304, 8388608, 16777216,
      33554432, 67108864, 134217728, 268435456, 536870912 }

RECURSIVE SetSum(_)
SetSum(S) == IF S = {} THEN 0 ELSE LET x == CHOOSE y \in S : TRUE IN x + SetSum(S \ {x})

RECURSIVE BitAnd(_, _)
BitAnd(a, b) ==
    IF a = 0 \/ b = 0 THEN 0
    ELSE (a % 2) * (b % 2) + 2 * BitAnd(a \div 2, b \div 2)

\* ChangedFlags::all().bits()
ChangedFlags_all == SetSum(ChangedFlagsConsts)

\* ChangedFlags::from_bits: None when a bit of the word has no named flag
from_bits(w) ==
    IF w - BitAnd(w, ChangedFlags_all) # 0 THEN None
    ELSE Some({f \in ChangedFlagsConsts : BitAnd(w, f) = f})

\* ChangedFlags::bits
bits(flags) == SetSum(flags)

(***************************************************************************)
(* esp_ieee802154::rssi_to_lqi                                             *)
(***************************************************************************)
rssi_to_lqi(rssi) ==
    IF rssi < -80 THEN 0
    ELSE IF rssi > -30 THEN 255
    ELSE U8(((rssi + 80) * 255) \div 50)

(***************************************************************************)
(* The registry's readers.                                                 *)
(***************************************************************************)
\* with_radio(f): None without running f when no radio is registered, else Some(f(radio)).
\* fResult is what f returns when it runs.
with_radio(fResult) == IF RADIO = None THEN None ELSE Some(fResult)

\* radio.get_raw_received(): the next buffered frame, if any
get_raw_received == IF rxQueue = <<>> THEN None ELSE Some(Head(rxQueue))

get_settings == IF NETWORK_SETTINGS = None THEN DefaultSettings ELSE NETWORK_SETTINGS[1]

(***************************************************************************)
(* Initial state: nothing constructed.                                     *)
(***************************************************************************)
NoCall ==
    [status |-> "none", dueAtStart |-> FALSE, snapshot |-> <<>>, drained |-> <<>>,
     log |-> <<>>, arrived |-> FALSE]

InitFrame ==
    [mLength |-> 0, mChannel |-> 0, mRadioType |-> 0, mRssi |-> 0, mLqi |-> 0,
     mTimestamp |-> 0]

InitCore ==
    /\ live = 0
    /\ RADIO = None
    /\ NETWORK_SETTINGS = None
    /\ CHANGE_CALLBACK = None
    /\ RCV_FRAME_PSDU = [i \in 1..RCV_FRAME_PSDU_LEN |-> 0]
    /\ RCV_FRAME = InitFrame
    /\ rxQueue = <<>>
    /\ timerDue = FALSE
    /\ millis = 0
    /\ engineCb = FALSE
    /\ taskletsPending = FALSE
    /\ pc = "idle"
    /\ fault = "none"
    /\ call = NoCall
    /\ dispatch = None
    /\ setLog = <<>>

NoDataset ==
    /\ dsArg = None
    /\ dsEngine = None
    /\ dsResult = None
    /\ dsStored = None
    /\ dsRead = None

NoneDelivered == [count |-> 0, last |-> None]

\* Nothing is held: no critical section, no borrow of a registry slot.
NoBorrows == [main |-> {}, nested |-> None]

\* No socket has been created; the engine knows none and holds no message.
NoSocket ==
    /\ sock = [life |-> "unborn"]
    /\ udp = [open |-> FALSE, port |-> 0]
    /\ pool = 0
    /\ delivered = NoneDelivered
    /\ op = None
    /\ borrows = NoBorrows

\* the engine's unicast-address list is empty and has not been read
NoAddrs ==
    /\ addrs = <<>>
    /\ addrOut = None

Init == InitCore /\ NoDataset /\ NoSocket /\ NoAddrs

Running == fault = "none"

\* the argument of the most recent set_change_callback (None before the first)
lastSet == IF setLog = <<>> THEN None ELSE setLog[Len(setLog)]

\* The history of a process() call is kept while the call runs and in the state
\* it ends in; the next step of anything else forgets it.
Forget == IF call.status = "running" THEN call ELSE NoCall
MainIdle == Running /\ pc = "idle" /\ live > 0

\* The engine is executing one of its entry points and may call back.
EnginePcs == {"timer", "rxdone", "tasklets"}

(***************************************************************************)
(* Lifecycle of the OpenThread value.                                      *)
(***************************************************************************)
\* OpenThread::new: registers the radio and hands change_callback to the engine;
\* otSetStateChangedCallback's status is only logged.
OpenThread_new ==
    /\ Running /\ pc = "idle" /\ live < MaxInstances
    /\ RADIO' = Some("radio")
    /\ \E res \in EngineStatuses :
          /\ engineCb' = (engineCb \/ res = otError_OT_ERROR_NONE)
          /\ op' = Some([name |-> "new", statuses |-> <<res>>, result |-> Ok])
    /\ live' = live + 1
    /\ call' = Forget
    /\ UNCHANGED <<NETWORK_SETTINGS, CHANGE_CALLBACK, scratchVars, envVars,
                   taskletsPending, pc, fault, dispatch, setLog, datasetVars,
                   socketVars, borrows, addrVars>>

\* a drop that leaves the settings slot as it is
OpenThread_drop_keeps_settings ==
    /\ MainIdle
    /\ RADIO' = None
    /\ CHANGE_CALLBACK' = None
    /\ live' = live - 1
    /\ dispatch' = None
    /\ call' = Forget
    /\ UNCHANGED <<NETWORK_SETTINGS, scratchVars, envVars, engineCb, taskletsPending,
                   pc, fault, setLog, datasetVars, socketVars, op,
                   borrows, addrVars>>

\* Drop for OpenThread: takes all three slots
OpenThread_drop ==
    /\ MainIdle
    /\ RADIO' = None
    /\ NETWORK_SETTINGS' = None
    /\ CHANGE_CALLBACK' = None
    /\ live' = live - 1
    /\ dispatch' = None
    /\ call' = Forget
    /\ UNCHANGED <<scratchVars, envVars, engineCb, taskletsPending, pc, fault,
                   setLog, datasetVars, socketVars, op, borrows, addrVars>>

\* a registration that keeps a callback already in the slot
set_change_callback_keeps_old(callback) ==
    /\ MainIdle
    /\ CHANGE_CALLBACK' = IF CHANGE_CALLBACK = None THEN callback ELSE CHANGE_CALLBACK
    /\ setLog' = IF setLog = <<>> THEN <<callback>> ELSE <<setLog[Len(setLog)], callback>>
    /\ dispatch' = None
    /\ call' = Forget
    /\ UNCHANGED <<live, RADIO, NETWORK_SETTINGS, scratchVars, envVars, engineCb,
                   taskletsPending, pc, fault, datasetVars, socketVars, op,
                   borrows, addrVars>>

\* OpenThread::set_change_callback(callback)
set_change_callback(callback) ==
    /\ MainIdle
    /\ CHANGE_CALLBACK' = callback
    /\ setLog' = IF setLog = <<>> THEN <<callback>> ELSE <<setLog[Len(setLog)], callback>>
    /\ dispatch' = None
    /\ call' = Forget
    /\ UNCHANGED <<live, RADIO, NETWORK_SETTINGS, scratchVars, envVars, engineCb,
                   taskletsPending, pc, fault, datasetVars, socketVars, op,
                   borrows, addrVars>>

(***************************************************************************)
(* Interrupts: the radio driver queues a frame, the timer marks a deadline *)
(* due, the millisecond counter advances.                                  *)
(***************************************************************************)
radio_isr(raw) ==
    /\ Running /\ live > 0
    /\ Len(rxQueue) < MaxQueue
    /\ call.status = "running" => Len(call.drained) + Len(rxQueue) < MaxPerCall
    /\ rxQueue' = Append(rxQueue, raw)
    /\ call' = IF call.status = "running" THEN [call EXCEPT !.arrived = TRUE] ELSE NoCall
    /\ UNCHANGED <<live, registryVars, scratchVars, timerDue, millis, engineCb,
                   taskletsPending, pc, fault, dispatch, setLog, datasetVars, socketVars, op,
                   borrows, addrVars>>

timer_isr ==
    /\ Running /\ live > 0 /\ ~timerDue
    /\ timerDue' = TRUE
    /\ call' = Forget
    /\ UNCHANGED <<live, registryVars, scratchVars, rxQueue, millis, engineCb,
                   taskletsPending, pc, fault, dispatch, setLog, datasetVars, socketVars, op,
                   borrows, addrVars>>

tick ==
    /\ Running /\ live > 0 /\ millis < MaxMillis
    /\ millis' = millis + 1
    /\ call' = Forget
    /\ UNCHANGED <<live, registryVars, scratchVars, rxQueue, timerDue, engineCb,
                   taskletsPending, pc, fault, dispatch, setLog, datasetVars, socketVars, op,
                   borrows, addrVars>>

current_millis == millis

(***************************************************************************)
(* process(): run_if_due(), then the drain loop.  pc = "timer" and         *)
(* pc = "rxdone" are the engine's alarm handler and its frame-received     *)
(* entry point running inside the call; pc = "drain" is the head of the    *)
(* while loop.                                                             *)
(***************************************************************************)
Logged(ev) == Append(call.log, ev)

\* timer::run_if_due: when the deadline has elapsed, notify the engine's alarm handler
run_if_due ==
    IF timerDue
    THEN timerDue' = FALSE /\ pc' = "timer"
    ELSE UNCHANGED timerDue /\ pc' = "drain"

\* process() with the two steps exchanged: the loop is entered before the timers ran
process_begin_frames_first ==
    /\ MainIdle
    /\ pc' = "drain"
    /\ call' = [status |-> "running", dueAtStart |-> timerDue, snapshot |-> rxQueue,
                drained |-> <<>>, arrived |-> FALSE, log |-> <<>>]
    /\ UNCHANGED <<live, registryVars, scratchVars, envVars, engineCb,
                   taskletsPending, fault, dispatch, setLog, datasetVars, socketVars, op,
                   borrows, addrVars>>

\* entry of process(), up to the call into the engine's alarm handler (if due)
process_begin ==
    /\ MainIdle
    /\ run_if_due
    /\ call' = [status |-> "running", dueAtStart |-> timerDue, snapshot |-> rxQueue,
                drained |-> <<>>, arrived |-> FALSE,
                log |-> IF timerDue THEN <<[ev |-> "alarm_fired"]>>
                                    ELSE <<[ev |-> "timers_done"]>>]
    /\ UNCHANGED <<live, registryVars, scratchVars, rxQueue, millis, engineCb,
                   taskletsPending, fault, dispatch, setLog, datasetVars, socketVars, op,
                   borrows, addrVars>>

\* the engine's alarm handler returns: run_if_due is complete
timer_return ==
    /\ Running /\ pc = "timer"
    /\ pc' = "drain"
    /\ call' = [call EXCEPT !.log = Logged([ev |-> "timers_done"])]
    /\ UNCHANGED <<live, registryVars, scratchVars, envVars, engineCb, taskletsPending,
                   fault, dispatch, setLog, datasetVars, socketVars, op,
                   borrows, addrVars>>

\* raw.data[raw.data[0] as usize - 1] as i8
frame_rssi(raw) == AsI8(raw.data[(raw.data[1] - 1) + 1])

\* the copy taken from raw.data[..len]: the length prefix is copied as payload
store_psdu_with_prefix(raw) ==
    [i \in 1..RCV_FRAME_PSDU_LEN |->
        IF i <= raw.data[1] THEN raw.data[i] ELSE RCV_FRAME_PSDU[i]]

\* RCV_FRAME_PSDU[..len].copy_from_slice(&raw.data[1..][..len])
store_psdu(raw) ==
    [i \in 1..RCV_FRAME_PSDU_LEN |->
        IF i <= raw.data[1] THEN raw.data[1 + i] ELSE RCV_FRAME_PSDU[i]]

\* the assignments to RCV_FRAME
store_frame(raw) ==
    [mLength |-> raw.data[1], mChannel |-> raw.channel, mRadioType |-> 1,
     mRssi |-> frame_rssi(raw), mLqi |-> rssi_to_lqi(frame_rssi(raw)),
     mTimestamp |-> current_millis * 1000]

\* what otPlatRadioReceiveDone is handed: the frame, its mLength bytes of PSDU, the status
EngineView(frame, psdu) ==
    [ev |-> "rx", frame |-> frame, psdu |-> SubSeq(psdu, 1, frame.mLength),
     error |-> otError_OT_ERROR_NONE]

\* a panic inside process(): the program halts with the call unfinished
Abort(why, drained) ==
    /\ fault' = why
    /\ call' = [call EXCEPT !.status = "aborted", !.drained = drained]

\* with_radio(..).unwrap() met None: no radio is registered
drain_no_radio ==
    /\ Abort("process: unwrap on None", call.drained)
    /\ UNCHANGED <<scratchVars, rxQueue, pc>>

\* the loop's exit resetting the scratch frame's length
drain_exit_clears_frame ==
    /\ pc' = "idle"
    /\ call' = [call EXCEPT !.status = "returned"]
    /\ RCV_FRAME' = [RCV_FRAME EXCEPT !.mLength = 0]
    /\ UNCHANGED <<RCV_FRAME_PSDU, rxQueue, fault>>

\* get_raw_received() returned None: the loop ends and process() returns
drain_exit ==
    /\ pc' = "idle"
    /\ call' = [call EXCEPT !.status = "returned"]
    /\ UNCHANGED <<scratchVars, rxQueue, fault>>

\* the loop body for the frame raw, up to the call of otPlatRadioReceiveDone
drain_forward(raw) ==
    LET len == raw.data[1] IN
    /\ rxQueue' = Tail(rxQueue)
    /\ IF len = 0 \/ len - 1 >= FRAME_SIZE
       THEN \* the RSSI index underflows or lies past raw.data
            /\ Abort("process: index out of bounds", Append(call.drained, raw))
            /\ UNCHANGED <<scratchVars, pc>>
       ELSE IF len > FRAME_SIZE - 1 \/ len > RCV_FRAME_PSDU_LEN
       THEN \* a slice of len bytes does not fit
            /\ Abort("process: slice out of range", Append(call.drained, raw))
            /\ UNCHANGED <<scratchVars, pc>>
       ELSE /\ RCV_FRAME_PSDU' = store_psdu(raw)
            /\ RCV_FRAME' = store_frame(raw)
            /\ pc' = "rxdone"
            /\ call' = [call EXCEPT
                          !.drained = Append(call.drained, raw),
                          !.log = Logged(EngineView(RCV_FRAME', RCV_FRAME_PSDU'))]
            /\ UNCHANGED fault

\* What with_radio holds while its closure runs: the critical section and
\* the mutable borrow of the RADIO slot.
with_radio_holds == {"critical_section", "RADIO"}

\* a process() that runs the loop body inside with_radio's closure
held_through_forward(held) == held \cup with_radio_holds

\* What the caller holds once with_radio has returned: the closure's borrow
\* and the critical section end with the call.
after_with_radio(held) == held \ with_radio_holds

\* one evaluation of the while condition and, for a frame, the loop body
process_drain ==
    /\ Running /\ pc = "drain"
    /\ LET got == with_radio(get_raw_received) IN
       IF got = None THEN drain_no_radio
       ELSE IF got[1] = None THEN drain_exit
       ELSE drain_forward(got[1][1])
    /\ borrows' = [main |-> after_with_radio(borrows.main), nested |-> None]
    /\ UNCHANGED <<live, registryVars, timerDue, millis, engineCb, taskletsPending,
                   dispatch, setLog, datasetVars, socketVars, op, addrVars>>

\* otPlatRadioReceiveDone returns to the loop
rx_done_return ==
    /\ Running /\ pc = "rxdone"
    /\ pc' = "drain"
    /\ borrows' = [borrows EXCEPT !.nested = None]
    /\ UNCHANGED <<live, registryVars, scratchVars, envVars, engineCb, taskletsPending,
                   fault, call, dispatch, setLog, datasetVars, socketVars, op,
                   addrVars>>

RegistrySlots == {"RADIO", "NETWORK_SETTINGS", "CHANGE_CALLBACK"}

\* Code the engine runs inside otPlatRadioReceiveDone enters a critical
\* section and borrows a registry slot (with_radio, get_settings,
\* change_callback), and gives both back when it is done.  Borrowing a slot
\* that is borrowed already panics.
nested_borrow(slot) ==
    /\ Running /\ pc = "rxdone"
    /\ borrows.nested = None
    /\ IF slot \in borrows.main
       THEN /\ fault' = "already borrowed"
            /\ borrows' = borrows
       ELSE /\ fault' = fault
            /\ borrows' = [borrows EXCEPT !.nested = Some(slot)]
    /\ UNCHANGED <<live, registryVars, scratchVars, envVars, engineCb, taskletsPending,
                   pc, call, dispatch, setLog, datasetVars, socketVars, op,
                   addrVars>>

(***************************************************************************)
(* run_tasklets()                                                          *)
(***************************************************************************)
\* a run_tasklets() that enters the engine without looking at the flag
run_tasklets_unconditional ==
    /\ MainIdle
    /\ pc' = "tasklets"
    /\ call' = Forget
    /\ UNCHANGED <<live, registryVars, scratchVars, envVars, engineCb, taskletsPending,
                   fault, dispatch, setLog, datasetVars, socketVars, op,
                   borrows, addrVars>>

\* if otTaskletsArePending { otTaskletsProcess }
run_tasklets ==
    /\ MainIdle
    /\ pc' = IF taskletsPending THEN "tasklets" ELSE pc
    /\ call' = Forget
    /\ UNCHANGED <<live, registryVars, scratchVars, envVars, engineCb, taskletsPending,
                   fault, dispatch, setLog, datasetVars, socketVars, op,
                   borrows, addrVars>>

\* otTaskletsProcess returns
tasklets_return ==
    /\ Running /\ pc = "tasklets"
    /\ pc' = "idle"
    /\ taskletsPending' = FALSE
    /\ call' = Forget
    /\ UNCHANGED <<live, registryVars, scratchVars, envVars, engineCb, fault,
                   dispatch, setLog, datasetVars, socketVars, op,
                   borrows, addrVars>>

\* the engine, while it runs, queues a tasklet
engine_posts_tasklet ==
    /\ Running /\ pc \in EnginePcs /\ ~taskletsPending
    /\ taskletsPending' = TRUE
    /\ call' = Forget
    /\ UNCHANGED <<live, registryVars, scratchVars, envVars, engineCb, pc, fault,
                   dispatch, setLog, datasetVars, socketVars, op,
                   borrows, addrVars>>

(***************************************************************************)
(* Callbacks the engine makes while one of its entry points runs.          *)
(***************************************************************************)
\* change_callback(flags, _context): the state-change dispatcher
change_callback(flags) ==
    /\ Running /\ pc \in EnginePcs /\ engineCb
    /\ IF CHANGE_CALLBACK = None
       THEN /\ dispatch' = Some([flags |-> flags, registered |-> None, invoked |-> <<>>])
            /\ fault' = fault /\ call' = Forget
       ELSE LET decoded == from_bits(flags) IN
            IF decoded = None
            THEN \* ChangedFlags::from_bits(flags).unwrap() of None
                 /\ dispatch' = Some([flags |-> flags, registered |-> CHANGE_CALLBACK,
                                      invoked |-> <<>>])
                 /\ fault' = "change_callback: unwrap on None"
                 /\ call' = IF call.status = "running"
                            THEN [call EXCEPT !.status = "aborted"] ELSE call
            ELSE /\ dispatch' = Some([flags |-> flags, registered |-> CHANGE_CALLBACK,
                                      invoked |-> <<[callback |-> CHANGE_CALLBACK[1],
                                                    arg |-> decoded[1]]>>])
                 /\ fault' = fault /\ call' = Forget
    /\ UNCHANGED <<live, registryVars, scratchVars, envVars, engineCb, taskletsPending,
                   pc, setLog, datasetVars, socketVars, op, borrows, addrVars>>

\* set_settings(settings), called by the radio platform hooks
set_settings(settings) ==
    /\ Running /\ pc \in EnginePcs
    /\ NETWORK_SETTINGS' = Some(settings)
    /\ call' = Forget
    /\ UNCHANGED <<live, RADIO, CHANGE_CALLBACK, scratchVars, envVars, engineCb,
                   taskletsPending, pc, fault, dispatch, setLog, datasetVars, socketVars, op,
                   borrows, addrVars>>

(***************************************************************************)
(* Spec: the lifecycle of the OpenThread value, the registry, the          *)
(* scheduler and the state-change dispatcher, with a radio that receives   *)
(* nothing.                                                                *)
(***************************************************************************)
Next ==
    \/ OpenThread_new
    \/ OpenThread_drop
    \/ \E callback \in {None} \cup {Some(c) : c \in Callbacks} : set_change_callback(callback)
    \/ timer_isr
    \/ process_begin
    \/ timer_return
    \/ process_drain
    \/ run_tasklets
    \/ tasklets_return
    \/ engine_posts_tasklet
    \/ \E flags \in FlagWords : change_callback(flags)
    \/ \E settings \in SettingsInputs : set_settings(settings)

Spec == Init /\ [][Next]_vars

(***************************************************************************)
(* PipelineSpec: one OpenThread value has been constructed; the radio      *)
(* receives frames, the timer fires, and the host calls process().         *)
(***************************************************************************)
ConfiguredSettings == CHOOSE settings \in SettingsInputs : settings # DefaultSettings

PipelineInit ==
    /\ live = 1
    /\ RADIO = Some("radio")
    /\ \E configured \in BOOLEAN :
          /\ NETWORK_SETTINGS = IF configured THEN Some(ConfiguredSettings) ELSE None
          /\ CHANGE_CALLBACK = IF configured THEN Some("cb1") ELSE None
          /\ setLog = IF configured THEN <<Some("cb1")>> ELSE <<>>
    /\ RCV_FRAME_PSDU = [i \in 1..RCV_FRAME_PSDU_LEN |-> 0]
    /\ RCV_FRAME = InitFrame
    /\ rxQueue = <<>>
    /\ timerDue = FALSE
    /\ millis = 0
    /\ engineCb = TRUE
    /\ taskletsPending = FALSE
    /\ pc = "idle"
    /\ fault = "none"
    /\ call = NoCall
    /\ dispatch = None
    /\ NoDataset
    /\ NoSocket
    /\ NoAddrs

PipelineNext ==
    \/ \E raw \in RawFrames : radio_isr(raw)
    \/ timer_isr
    \/ tick
    \/ process_begin
    \/ timer_return
    \/ process_drain
    \/ rx_done_return
    \/ \E slot \in RegistrySlots : nested_borrow(slot)

PipelineSpec == PipelineInit /\ [][PipelineNext]_vars

(***************************************************************************)
(* Claims about process() and the receive pipeline (PipelineSpec).         *)
(***************************************************************************)
RxEvents == SelectSeq(call.log, LAMBDA e : e.ev = "rx")
CallEnded == call.status \in {"returned", "aborted"}

\* C1: within one process() call the timer step (run_if_due, with the engine's
\* alarm handler when a deadline was due) is complete before the first frame is
\* handed to otPlatRadioReceiveDone.
C1_TimersBeforeFrames ==
    \A i \in 1..Len(call.log) :
        call.log[i].ev = "rx" =>
            /\ \E j \in 1..(i - 1) : call.log[j].ev = "timers_done"
            /\ call.dueAtStart => \E j \in 1..(i - 1) : call.log[j].ev = "alarm_fired"

\* a call that found a deadline due and has forwarded a frame
C1_Witness ==
    /\ call.dueAtStart
    /\ RxEvents # <<>>

\* C2 (as claimed): a process() call that has ended has returned, has handed
\* every frame it took from the driver to the engine exactly once and in the
\* driver's order, stopped on an empty queue, and, when no frame arrived during
\* the call, took exactly the frames buffered at its start.
C2_ForwardsEveryFrameAndReturns ==
    CallEnded =>
        /\ call.status = "returned"
        /\ Len(RxEvents) = Len(call.drained)
        /\ \A i \in 1..Len(RxEvents) :
              /\ RxEvents[i].frame.mLength = call.drained[i].data[1]
              /\ RxEvents[i].psdu =
                    SubSeq(call.drained[i].data, 2, call.drained[i].data[1] + 1)
        /\ rxQueue = <<>>
        /\ ~call.arrived => call.drained = call.snapshot

LastRaw == call.drained[Len(call.drained)]
LastRx == call.log[Len(call.log)]

\* what C3 says of every field but the RSSI: length, payload, channel, LQI, status
ForwardedFrameMatches ==
    LET raw == LastRaw
        len == raw.data[1]
    IN  /\ LastRx.ev = "rx"
        /\ LastRx.frame = RCV_FRAME
        /\ LastRx.frame.mLength = len
        /\ LastRx.psdu = SubSeq(raw.data, 2, len + 1)
        /\ SubSeq(RCV_FRAME_PSDU, 1, len) = SubSeq(raw.data, 2, len + 1)
        /\ LastRx.frame.mChannel = raw.channel
        /\ LastRx.frame.mLqi = rssi_to_lqi(LastRx.frame.mRssi)
        /\ LastRx.error = otError_OT_ERROR_NONE

ProcessEntryStep == pc = "idle" /\ call'.status = "running"
ProcessLoopStep == pc = "drain" /\ pc' # "drain"

\* C4: process() called with a registered radio that has nothing buffered and no
\* timer due calls nothing in the engine and leaves the scratch frame and the
\* three registry slots as they were: its entry and its one evaluation of the
\* loop change none of them and enter no engine entry point, the call returns,
\* and its log holds no engine call.
C4_IdleProcessIsNoOp ==
    /\ [][ (ProcessEntryStep /\ ~timerDue)
            => (pc' = "drain" /\ UNCHANGED <<registryVars, scratchVars>>) ]_vars
    /\ [][ (ProcessLoopStep /\ RADIO # None /\ rxQueue = <<>>)
            => (pc' = "idle" /\ fault' = "none" /\ call'.status = "returned"
                /\ UNCHANGED <<registryVars, scratchVars, envVars>>) ]_vars
    /\ [](  (call.status = "returned" /\ ~call.dueAtStart /\ call.snapshot = <<>>
              /\ ~call.arrived)
            => call.log = <<[ev |-> "timers_done"]>> )

\* an idle call has returned, with a frame of an earlier call still in the scratch
\* buffer and the registry configured
C4_Witness ==
    /\ call.status = "returned" /\ ~call.dueAtStart /\ call.snapshot = <<>>
    /\ ~call.arrived
    /\ RCV_FRAME.mLength > 0
    /\ CHANGE_CALLBACK # None /\ NETWORK_SETTINGS # None

(***************************************************************************)
(* Claims about the registry and the state-change dispatcher (Spec).       *)
(***************************************************************************)
Dispatched == dispatch # None
TheDispatch == dispatch[1]

\* C5 (as claimed): absence is never a fault.  with_radio(f) is None without a
\* registered radio and Some(f(radio)) with one; process() run without a
\* registered radio completes as an empty drain; the dispatcher run without a
\* registered callback does nothing; an empty queue makes process() forward nothing.
C5_AbsenceIsNeverAFault ==
    /\ RADIO = None => with_radio(get_raw_received) = None
    /\ RADIO # None => with_radio(get_raw_received) = Some(get_raw_received)
    /\ (CallEnded /\ RADIO = None) =>
            (call.status = "returned" /\ fault = "none" /\ RxEvents = <<>>)
    /\ (Dispatched /\ TheDispatch.registered = None) =>
            (TheDispatch.invoked = <<>> /\ fault = "none")
    /\ (CallEnded /\ call.snapshot = <<>> /\ ~call.arrived) => RxEvents = <<>>

\* C6 (as claimed): a run of the dispatcher with flag word w while a callback is
\* registered invokes that callback exactly once, with the flags whose bits are w.
C6_CallbackOncePerStateChange ==
    (Dispatched /\ TheDispatch.registered # None) =>
        /\ Len(TheDispatch.invoked) = 1
        /\ TheDispatch.invoked[1].callback = TheDispatch.registered[1]
        /\ bits(TheDispatch.invoked[1].arg) = TheDispatch.flags

\* C7 (as claimed): whenever the dispatcher decodes the engine's flag word, the
\* decode succeeds without a fault and encoding the decoded flags gives the word
\* back, also for a word with a bit that has no named flag.
C7_DecodeNeverFails ==
    (Dispatched /\ TheDispatch.registered # None) =>
        /\ from_bits(TheDispatch.flags) # None
        /\ bits(from_bits(TheDispatch.flags)[1]) = TheDispatch.flags
        /\ fault # "change_callback: unwrap on None"

\* C8: the slot holds nothing or the callback of the most recent
\* set_change_callback, and a dispatch invokes no callback but that one: never
\* one registered earlier, and none when the most recent call passed None.
C8_OnlyLatestCallback ==
    /\ CHANGE_CALLBACK \in {None, lastSet}
    /\ Dispatched =>
          \A i \in 1..Len(TheDispatch.invoked) :
              Some(TheDispatch.invoked[i].callback) = lastSet

\* a dispatch has invoked the second of two different registered callbacks
C8_Witness ==
    /\ Len(setLog) = 2
    /\ setLog[1] # None /\ setLog[2] # None /\ setLog[1] # setLog[2]
    /\ Dispatched
    /\ Len(TheDispatch.invoked) = 1
    /\ Some(TheDispatch.invoked[1].callback) = setLog[2]

SlotsEmpty ==
    /\ RADIO = None
    /\ NETWORK_SETTINGS = None
    /\ CHANGE_CALLBACK = None
    /\ with_radio(get_raw_received) = None
    /\ get_settings = DefaultSettings

\* C9: the radio slot is empty before OpenThread::new; new fills it; only a drop
\* empties it; a drop leaves all three slots empty, so that with_radio gives
\* None, get_settings gives the default settings, and a dispatch run on the
\* emptied registry invokes no callback.
C9_RegistryLifecycle ==
    /\ [](live = 0 => SlotsEmpty)
    /\ [][live' > live => RADIO' # None]_vars
    /\ [][(RADIO # None /\ RADIO' = None) => live' < live]_vars
    /\ [][live' < live => SlotsEmpty']_vars
    /\ []((Dispatched /\ CHANGE_CALLBACK = None /\ TheDispatch.registered = None)
            => TheDispatch.invoked = <<>>)

\* settings were set and a callback registered, the value was dropped, and a
\* dispatch has run on the emptied registry
C9_Witness ==
    /\ RADIO = None
    /\ lastSet # None
    /\ Dispatched
    /\ TheDispatch.invoked = <<>>
    /\ get_settings = DefaultSettings

(***************************************************************************)
(* Operational dataset marshalling.                                        *)
(*                                                                         *)
(* An OperationalDataset has twelve optional fields.  set_active_dataset   *)
(* assembles the engine's fixed-layout otOperationalDataset from it: the   *)
(* slots start zeroed, each present field is copied, and the presence      *)
(* bits are packed into mComponents.  Byte arrays are sequences of bytes,  *)
(* a name is the sequence of its bytes, bitfields are the packed integer.  *)
(***************************************************************************)
Pow2(n) == 2 ^ n

Bit(b) == IF b THEN 1 ELSE 0

TestBit(word, n) == (word \div Pow2(n)) % 2 = 1

ThreadTimestamp(seconds, ticks, authoritative) ==
    [seconds |-> seconds, ticks |-> ticks, authoritative |-> authoritative]

SecurityPolicy_default ==
    [rotation_time |-> 0,
     autonomous_enrollment_enabled |-> FALSE,
     commercial_commissioning_enabled |-> FALSE,
     external_commissioning_enabled |-> FALSE,
     native_commissioning_enabled |-> FALSE,
     network_key_provisioning_enabled |-> FALSE,
     non_ccm_routers_enabled |-> FALSE,
     obtain_network_key_enabled |-> FALSE,
     routers_enabled |-> FALSE,
     toble_link_enabled |-> FALSE,
     version_threshold_for_routing |-> 0]

OperationalDataset_default ==
    [active_timestamp |-> None, pending_timestamp |-> None,
     network_key |-> None, network_name |-> None,
     extended_pan_id |-> None, mesh_local_prefix |-> None,
     delay |-> None, pan_id |-> None, channel |-> None, pskc |-> None,
     security_policy |-> None, channel_mask |-> None]

\* The value each field carries when it is present in an input.
SampleDataset ==
    [active_timestamp  |-> Some(ThreadTimestamp(1, 2, TRUE)),
     pending_timestamp |-> Some(ThreadTimestamp(3, 4, FALSE)),
     network_key       |-> Some([i \in 1..16 |-> 16 + i]),
     network_name      |-> Some(<<79, 84, 45, 49>>),
     extended_pan_id   |-> Some([i \in 1..8 |-> 160 + i]),
     mesh_local_prefix |-> Some([i \in 1..8 |-> 253 - i]),
     delay             |-> Some(30000),
     pan_id            |-> Some(4660),
     channel           |-> Some(15),
     pskc              |-> Some([i \in 1..16 |-> 200 + i]),
     security_policy   |-> Some([SecurityPolicy_default EXCEPT
                                   !.rotation_time = 672,
                                   !.obtain_network_key_enabled = TRUE,
                                   !.routers_enabled = TRUE,
                                   !.non_ccm_routers_enabled = TRUE,
                                   !.version_threshold_for_routing = 3]),
     channel_mask      |-> Some(134215680)]

DatasetFields == DOMAIN OperationalDataset_default

\* Every choice of which of the twelve fields are present.
PresenceDatasets ==
    { [f \in DatasetFields |-> IF f \in present THEN SampleDataset[f] ELSE None] :
        present \in SUBSET DatasetFields }

\* heapless::String<16>: at most sixteen bytes of UTF-8.
NETWORK_NAME_CAPACITY == 16

AsciiName(n) == [i \in 1..n |-> 64 + i]

\* Names of every length, and a sixteen-byte name ending in a two-byte
\* character.
NameSamples ==
    {AsciiName(n) : n \in 0..NETWORK_NAME_CAPACITY}
        \cup {AsciiName(NETWORK_NAME_CAPACITY - 2) \o <<195, 169>>}

NameDatasets ==
    { [OperationalDataset_default EXCEPT !.network_name = Some(name)] :
        name \in NameSamples }

PolicyFlags ==
    {"autonomous_enrollment_enabled", "commercial_commissioning_enabled",
     "external_commissioning_enabled", "native_commissioning_enabled",
     "network_key_provisioning_enabled", "non_ccm_routers_enabled",
     "obtain_network_key_enabled", "routers_enabled", "toble_link_enabled"}

\* Every combination of the nine flags, with version thresholds inside and
\* outside three bits and the extreme rotation times.
PolicySamples ==
    { [f \in DOMAIN SecurityPolicy_default |->
          IF f = "rotation_time" THEN rotation
          ELSE IF f = "version_threshold_for_routing" THEN version
          ELSE f \in on] :
        on \in SUBSET PolicyFlags, version \in {0, 7, 8, 255},
        rotation \in {0, 65535} }

PolicyDatasets ==
    { [OperationalDataset_default EXCEPT !.security_policy = Some(policy)] :
        policy \in PolicySamples }

Datasets == PresenceDatasets \cup NameDatasets \cup PolicyDatasets

\* otOperationalDatasetComponents::new_bitfield_1: the twelve presence bits,
\* packed in the order of the arguments (bit 0 first).
otOperationalDatasetComponents_new_bitfield_1(at, pt, nk, nn, xp, ml, dl, pi, ch, ps, sp, cm) ==
      Bit(at)                \* mIsActiveTimestampPresent
    + Bit(pt) * Pow2(1)      \* mIsPendingTimestampPresent
    + Bit(nk) * Pow2(2)      \* mIsNetworkKeyPresent
    + Bit(nn) * Pow2(3)      \* mIsNetworkNamePresent
    + Bit(xp) * Pow2(4)      \* mIsExtendedPanIdPresent
    + Bit(ml) * Pow2(5)      \* mIsMeshLocalPrefixPresent
    + Bit(dl) * Pow2(6)      \* mIsDelayPresent
    + Bit(pi) * Pow2(7)      \* mIsPanIdPresent
    + Bit(ch) * Pow2(8)      \* mIsChannelPresent
    + Bit(ps) * Pow2(9)      \* mIsPskcPresent
    + Bit(sp) * Pow2(10)     \* mIsSecurityPolicyPresent
    + Bit(cm) * Pow2(11)     \* mIsChannelMaskPresent

\* otSecurityPolicy::new_bitfield_1: nine one-bit flags, then the three-bit
\* version threshold.
otSecurityPolicy_new_bitfield_1(onk, nc, rt, ec, cc, ae, nkp, tl, ncr, vtr) ==
      Bit(onk)               \* mObtainNetworkKeyEnabled
    + Bit(nc) * Pow2(1)      \* mNativeCommissioningEnabled
    + Bit(rt) * Pow2(2)      \* mRoutersEnabled
    + Bit(ec) * Pow2(3)      \* mExternalCommissioningEnabled
    + Bit(cc) * Pow2(4)      \* mCommercialCommissioningEnabled
    + Bit(ae) * Pow2(5)      \* mAutonomousEnrollmentEnabled
    + Bit(nkp) * Pow2(6)     \* mNetworkKeyProvisioningEnabled
    + Bit(tl) * Pow2(7)      \* mTobleLinkEnabled
    + Bit(ncr) * Pow2(8)     \* mNonCcmRoutersEnabled
    + (vtr % 8) * Pow2(9)    \* mVersionThresholdForRouting

otTimestamp(mSeconds, mTicks, mAuthoritative) ==
    [mSeconds |-> mSeconds, mTicks |-> mTicks, mAuthoritative |-> mAuthoritative]

otSecurityPolicy(mRotationTime, bitfield_1) ==
    [mRotationTime |-> mRotationTime, bitfield_1 |-> bitfield_1]

\* The raw dataset set_active_dataset starts from: every slot zeroed.
ZeroRawDataset ==
    [mActiveTimestamp  |-> otTimestamp(0, 0, FALSE),
     mPendingTimestamp |-> otTimestamp(0, 0, FALSE),
     mNetworkKey       |-> [i \in 1..16 |-> 0],
     mNetworkName      |-> [i \in 1..17 |-> 0],
     mExtendedPanId    |-> [i \in 1..8 |-> 0],
     mMeshLocalPrefix  |-> [i \in 1..8 |-> 0],
     mDelay            |-> 0,
     mPanId            |-> 0,
     mChannel          |-> 0,
     mPskc             |-> [i \in 1..16 |-> 0],
     mSecurityPolicy   |-> otSecurityPolicy(0,
                              otSecurityPolicy_new_bitfield_1(FALSE, FALSE,
                                  FALSE, FALSE, FALSE, FALSE, FALSE, FALSE,
                                  FALSE, 0)),
     mChannelMask      |-> 0,
     mComponents       |-> otOperationalDatasetComponents_new_bitfield_1(
                              TRUE, FALSE, TRUE, TRUE, TRUE, FALSE, FALSE,
                              TRUE, TRUE, FALSE, FALSE, FALSE)]

RawTimestamp(ts) == otTimestamp(ts.seconds, ts.ticks, ts.authoritative)

\* The name's bytes copied to the front of a zeroed [i8; 17].
RawNetworkName(network_name) ==
    [i \in 1..17 |-> IF i <= Len(network_name) THEN AsI8(network_name[i]) ELSE 0]

RawSecurityPolicy(security_policy) ==
    otSecurityPolicy(security_policy.rotation_time,
        otSecurityPolicy_new_bitfield_1(
            security_policy.obtain_network_key_enabled,
            security_policy.native_commissioning_enabled,
            security_policy.routers_enabled,
            security_policy.external_commissioning_enabled,
            security_policy.commercial_commissioning_enabled,
            security_policy.autonomous_enrollment_enabled,
            security_policy.network_key_provisioning_enabled,
            security_policy.toble_link_enabled,
            security_policy.non_ccm_routers_enabled,
            security_policy.version_threshold_for_routing))

\* The timestamp slots after both "if let" blocks of set_active_dataset: the
\* block for the pending timestamp assigns mActiveTimestamp.
RawActiveTimestamp(dataset) ==
    IF dataset.pending_timestamp # None
        THEN RawTimestamp(dataset.pending_timestamp[1])
    ELSE IF dataset.active_timestamp # None
        THEN RawTimestamp(dataset.active_timestamp[1])
    ELSE ZeroRawDataset.mActiveTimestamp

RawPendingTimestamp(dataset) == ZeroRawDataset.mPendingTimestamp

\* A slot that is copied from the field when the field is present.
Slot(field, zero) == IF field # None THEN field[1] ELSE zero

\* The raw dataset set_active_dataset hands to otDatasetSetActive.
raw_dataset(dataset) ==
    [mActiveTimestamp  |-> RawActiveTimestamp(dataset),
     mPendingTimestamp |-> RawPendingTimestamp(dataset),
     mNetworkKey       |-> Slot(dataset.network_key, ZeroRawDataset.mNetworkKey),
     mNetworkName      |-> IF dataset.network_name # None
                              THEN RawNetworkName(dataset.network_name[1])
                              ELSE ZeroRawDataset.mNetworkName,
     mExtendedPanId    |-> Slot(dataset.extended_pan_id,
                                ZeroRawDataset.mExtendedPanId),
     mMeshLocalPrefix  |-> Slot(dataset.mesh_local_prefix,
                                ZeroRawDataset.mMeshLocalPrefix),
     mDelay            |-> Slot(dataset.delay, ZeroRawDataset.mDelay),
     mPanId            |-> Slot(dataset.pan_id, ZeroRawDataset.mPanId),
     mChannel          |-> Slot(dataset.channel, ZeroRawDataset.mChannel),
     mPskc             |-> Slot(dataset.pskc, ZeroRawDataset.mPskc),
     mSecurityPolicy   |-> IF dataset.security_policy # None
                              THEN RawSecurityPolicy(dataset.security_policy[1])
                              ELSE ZeroRawDataset.mSecurityPolicy,
     mChannelMask      |-> Slot(dataset.channel_mask, ZeroRawDataset.mChannelMask),
     mComponents       |-> otOperationalDatasetComponents_new_bitfield_1(
                              dataset.active_timestamp # None,
                              dataset.pending_timestamp # None,
                              dataset.network_key # None,
                              dataset.network_name # None,
                              dataset.extended_pan_id # None,
                              dataset.mesh_local_prefix # None,
                              dataset.delay # None,
                              dataset.pan_id # None,
                              dataset.channel # None,
                              dataset.pskc # None,
                              dataset.security_policy # None,
                              dataset.channel_mask # None)]

\* OpenThread::set_active_dataset(dataset): assemble the raw dataset, hand
\* it to the engine, and map the engine's status to a Result.
set_active_dataset(dataset) ==
    /\ MainIdle
    /\ dsEngine = None
    /\ \E status \in EngineStatuses :
          /\ dsEngine' = Some(raw_dataset(dataset))
          /\ dsResult' = Some(checked(status))
          /\ dsStored' = IF status = otError_OT_ERROR_NONE
                             THEN Some(raw_dataset(dataset)) ELSE dsStored
    /\ UNCHANGED <<live, registryVars, scratchVars, envVars, engineCb,
                   taskletsPending, pc, fault, call, dispatch, setLog, dsArg,
                   dsRead, socketVars, op, borrows, addrVars>>

AsU8(x) == IF x < 0 THEN x + 256 ELSE x

\* core::str::from_utf8's acceptance of a byte sequence.
RECURSIVE utf8_valid(_)
utf8_valid(v) ==
    IF v = <<>> THEN TRUE
    ELSE LET n == Len(v)
             b == v[1]
             In(k, lo, hi) == n >= k /\ v[k] >= lo /\ v[k] <= hi
             Rest(k) == utf8_valid(SubSeq(v, k + 1, n))
         IN  IF b < 128 THEN Rest(1)
             ELSE IF b >= 194 /\ b <= 223 THEN In(2, 128, 191) /\ Rest(2)
             ELSE IF b = 224
                 THEN In(2, 160, 191) /\ In(3, 128, 191) /\ Rest(3)
             ELSE IF b = 237
                 THEN In(2, 128, 159) /\ In(3, 128, 191) /\ Rest(3)
             ELSE IF b >= 225 /\ b <= 239
                 THEN In(2, 128, 191) /\ In(3, 128, 191) /\ Rest(3)
             ELSE IF b = 240
                 THEN In(2, 144, 191) /\ In(3, 128, 191) /\ In(4, 128, 191)
                      /\ Rest(4)
             ELSE IF b >= 241 /\ b <= 243
                 THEN In(2, 128, 191) /\ In(3, 128, 191) /\ In(4, 128, 191)
                      /\ Rest(4)
             ELSE IF b = 244
                 THEN In(2, 128, 143) /\ In(3, 128, 191) /\ In(4, 128, 191)
                      /\ Rest(4)
             ELSE FALSE

\* heapless::String::from_utf8(vec), as an Option of the string's bytes.
String_from_utf8(vec) == IF utf8_valid(vec) THEN Some(vec) ELSE None

\* The name dataset_from_raw_dataset reads: the first fifteen bytes of the
\* native field, whatever they are.
name_from_raw(m8) ==
    LET name_as_u8 == [i \in 1..17 |-> AsU8(m8[i])]
        name_as_vec == SubSeq(name_as_u8, 1, 15)
    IN  String_from_utf8(name_as_vec)

\* The getters of otSecurityPolicy's bitfield.
policy_from_raw(mSecurityPolicy) ==
    LET bf == mSecurityPolicy.bitfield_1 IN
    [rotation_time |-> mSecurityPolicy.mRotationTime,
     autonomous_enrollment_enabled |-> TestBit(bf, 5),
     commercial_commissioning_enabled |-> TestBit(bf, 4),
     external_commissioning_enabled |-> TestBit(bf, 3),
     native_commissioning_enabled |-> TestBit(bf, 1),
     network_key_provisioning_enabled |-> TestBit(bf, 6),
     non_ccm_routers_enabled |-> TestBit(bf, 8),
     obtain_network_key_enabled |-> TestBit(bf, 0),
     routers_enabled |-> TestBit(bf, 2),
     toble_link_enabled |-> TestBit(bf, 7),
     version_threshold_for_routing |-> (bf \div Pow2(9)) % 8]

\* dataset_from_raw_dataset(raw_dataset): every field is reported, from its
\* slot; mComponents is not consulted.
dataset_from_raw_dataset(raw) ==
    [active_timestamp  |-> Some(ThreadTimestamp(raw.mActiveTimestamp.mSeconds,
                                                raw.mActiveTimestamp.mTicks,
                                                raw.mActiveTimestamp.mAuthoritative)),
     pending_timestamp |-> Some(ThreadTimestamp(raw.mPendingTimestamp.mSeconds,
                                                raw.mPendingTimestamp.mTicks,
                                                raw.mPendingTimestamp.mAuthoritative)),
     network_key       |-> Some(raw.mNetworkKey),
     network_name      |-> name_from_raw(raw.mNetworkName),
     extended_pan_id   |-> Some(raw.mExtendedPanId),
     mesh_local_prefix |-> Some(raw.mMeshLocalPrefix),
     delay             |-> Some(raw.mDelay),
     pan_id            |-> Some(raw.mPanId),
     channel           |-> Some(raw.mChannel),
     pskc              |-> Some(raw.mPskc),
     security_policy   |-> Some(policy_from_raw(raw.mSecurityPolicy)),
     channel_mask      |-> Some(raw.mChannelMask)]

OkWith(value) == [ok |-> TRUE, code |-> 0, value |-> value]

\* OpenThread::get_active_dataset(): the engine fills a raw dataset with the
\* one it stores and answers with a status.
get_active_dataset ==
    /\ MainIdle
    /\ dsRead = None
    /\ \E status \in EngineStatuses :
          /\ status = otError_OT_ERROR_NONE => dsStored # None
          /\ dsRead' = Some(IF status = 0
                               THEN OkWith(dataset_from_raw_dataset(dsStored[1]))
                               ELSE InternalError(status))
    /\ UNCHANGED <<live, registryVars, scratchVars, envVars, engineCb,
                   taskletsPending, pc, fault, call, dispatch, setLog, dsArg,
                   dsEngine, dsResult, dsStored, socketVars, op,
                   borrows, addrVars>>

\* One OpenThread value exists; the caller holds some dataset to submit.
DatasetInit ==
    /\ NoAddrs
    /\ live = 1
    /\ RADIO = Some("radio")
    /\ NETWORK_SETTINGS = None
    /\ CHANGE_CALLBACK = None
    /\ RCV_FRAME_PSDU = [i \in 1..RCV_FRAME_PSDU_LEN |-> 0]
    /\ RCV_FRAME = InitFrame
    /\ rxQueue = <<>>
    /\ timerDue = FALSE
    /\ millis = 0
    /\ engineCb = TRUE
    /\ taskletsPending = FALSE
    /\ pc = "idle"
    /\ fault = "none"
    /\ call = NoCall
    /\ dispatch = None
    /\ setLog = <<>>
    /\ dsArg \in {Some(dataset) : dataset \in Datasets}
    /\ dsEngine = None
    /\ dsResult = None
    /\ dsStored = None
    /\ dsRead = None
    /\ NoSocket

DatasetNext ==
    \/ set_active_dataset(dsArg[1])
    \/ get_active_dataset

DatasetSpec == DatasetInit /\ [][DatasetNext]_vars

(***************************************************************************)
(* UDP sockets.                                                            *)
(*                                                                         *)
(* One UdpSocket<BUFFER_SIZE> is created from the OpenThread value.  The   *)
(* engine's side is what it keeps for the socket: whether the socket is in *)
(* its list of open sockets (with the back-pointer to the UdpSocket as the *)
(* receive handler's context) and the port it is bound to.  A status of 0  *)
(* from an engine call means the call took effect; any other status means  *)
(* it did not.  receive_buffer holds the bytes up to the last index ever   *)
(* written; the bytes beyond are the zeroes the socket was created with.   *)
(***************************************************************************)
MaxMessages == 2    \* messages the engine's pool has room for
MaxPending  == 2    \* receive-handler runs between two receive() calls

U16(n) == n % 65536

\* Ipv6Addr::UNSPECIFIED, as its sixteen octets.
UNSPECIFIED == [i \in 1..16 |-> 0]

Peer(n) == [i \in 1..16 |-> IF i = 1 THEN 253 ELSE IF i = 16 THEN n ELSE 0]

\* BUFFER_SIZE of the socket: small, and beyond sixteen bits.
Capacities == {2, 4, 65536, 65538}

\* Datagrams the engine delivers: payload, sender address and port.
Datagrams ==
    { [bytes |-> <<10, 11, 12>>, from |-> Peer(1), port |-> 1000],
      [bytes |-> <<20>>, from |-> Peer(2), port |-> 2000],
      [bytes |-> <<30, 31, 32, 33, 34>>, from |-> Peer(3), port |-> 3000] }

\* The caller's buffer for receive(): its length; it is filled with 255.
DataLens == {0, 2, 8}

Ports == {0, 1212}

SocketAlive == sock.life = "alive"

\* OpenThread::get_udp_socket::<BUFFER_SIZE>()
get_udp_socket(BUFFER_SIZE) ==
    /\ MainIdle
    /\ sock.life = "unborn"
    /\ sock' = [life |-> "alive",
                receive_len |-> 0,
                receive_from |-> [i \in 1..16 |-> 0],
                receive_port |-> 0,
                max |-> BUFFER_SIZE,
                receive_buffer |-> <<>>]
    /\ UNCHANGED <<live, registryVars, scratchVars, envVars, engineCb,
                   taskletsPending, pc, fault, call, dispatch, setLog,
                   datasetVars, udp, pool, delivered, op, borrows, addrVars>>

\* otUdpOpen: registers the socket, unless it is registered already.
otUdpOpen_statuses == IF udp.open THEN EngineStatuses \ {0} ELSE EngineStatuses

otUdpOpen(status) == IF status = 0 THEN [open |-> TRUE, port |-> 0] ELSE udp

\* otUdpBind on an open socket.
otUdpBind(opened, port, status) ==
    IF status = 0 THEN [opened EXCEPT !.port = port] ELSE opened

\* otUdpClose: removes the socket from the list; closing a socket that is
\* not open succeeds and changes nothing.
otUdpClose_statuses == IF udp.open THEN EngineStatuses ELSE {0}

otUdpClose(status) == IF status = 0 THEN [open |-> FALSE, port |-> 0] ELSE udp

Done(name, statuses, result) ==
    Some([name |-> name, statuses |-> statuses, result |-> result])

\* UdpSocket::bind(port): otUdpOpen, then otUdpBind; "?" returns at the first
\* status that is not 0.
bind(port) ==
    /\ MainIdle /\ SocketAlive
    /\ \E s1 \in otUdpOpen_statuses :
          IF s1 # 0
          THEN /\ udp' = otUdpOpen(s1)
               /\ op' = Done("bind", <<s1>>, checked(s1))
          ELSE \E s2 \in EngineStatuses :
               /\ udp' = otUdpBind(otUdpOpen(s1), port, s2)
               /\ op' = Done("bind", <<s1, s2>>, checked(s2))
    /\ UNCHANGED <<live, registryVars, scratchVars, envVars, engineCb,
                   taskletsPending, pc, fault, call, dispatch, setLog,
                   datasetVars, sock, pool, delivered, borrows, addrVars>>

\* UdpSocket::open(port): otUdpOpen only; the port is not used.
open(port) ==
    /\ MainIdle /\ SocketAlive
    /\ \E s1 \in otUdpOpen_statuses :
          /\ udp' = otUdpOpen(s1)
          /\ op' = Done("open", <<s1>>, checked(s1))
    /\ UNCHANGED <<live, registryVars, scratchVars, envVars, engineCb,
                   taskletsPending, pc, fault, call, dispatch, setLog,
                   datasetVars, sock, pool, delivered, borrows, addrVars>>

\* a close that cannot be repeated: closing what is not open panics
close_once_only ==
    /\ MainIdle /\ SocketAlive
    /\ \E status \in otUdpClose_statuses :
          /\ udp' = otUdpClose(status)
          /\ op' = Done("close", <<status>>, checked(status))
    /\ fault' = IF udp.open THEN fault ELSE "close: socket is not open"
    /\ UNCHANGED <<live, registryVars, scratchVars, envVars, engineCb,
                   taskletsPending, pc, call, dispatch, setLog,
                   datasetVars, sock, pool, delivered, borrows, addrVars>>

\* UdpSocket::close(): otUdpClose.
close ==
    /\ MainIdle /\ SocketAlive
    /\ \E status \in otUdpClose_statuses :
          /\ udp' = otUdpClose(status)
          /\ op' = Done("close", <<status>>, checked(status))
    /\ UNCHANGED <<live, registryVars, scratchVars, envVars, engineCb,
                   taskletsPending, pc, fault, call, dispatch, setLog,
                   datasetVars, sock, pool, delivered, borrows, addrVars>>

\* Drop for UdpSocket: close_internal().ok(), then the storage is released.
UdpSocket_drop ==
    /\ MainIdle /\ SocketAlive
    /\ \E status \in otUdpClose_statuses : udp' = otUdpClose(status)
    /\ sock' = [life |-> "dropped"]
    /\ UNCHANGED <<live, registryVars, scratchVars, envVars, engineCb,
                   taskletsPending, pc, fault, call, dispatch, setLog,
                   datasetVars, pool, delivered, op, borrows, addrVars>>

\* UdpSocket::send(dst, port, data): otUdpNewMessage, otMessageAppend,
\* otUdpSend, and otMessageFree when otUdpSend refuses the message.  The
\* message ends up with the engine ("accepted"), released ("freed"), or
\* still allocated with nobody holding it ("held"); "none" if none was made.
SendDone(statuses, result, message, frees) ==
    Some([name |-> "send", statuses |-> statuses, result |-> result,
          message |-> message, frees |-> frees])

send ==
    /\ MainIdle /\ SocketAlive
    /\ \E allocated \in BOOLEAN :
          /\ allocated => pool < MaxMessages
          /\ IF ~allocated
             THEN /\ op' = SendDone(<<>>, InternalError(0), "none", 0)
                  /\ pool' = pool
             ELSE \E appended \in EngineStatuses :
                  IF appended # 0
                  THEN /\ op' = SendDone(<<appended>>, checked(appended), "held", 0)
                       /\ pool' = pool + 1
                  ELSE \E err \in EngineStatuses :
                       /\ pool' = pool
                       /\ op' = IF err # otError_OT_ERROR_NONE
                                  THEN SendDone(<<appended, err>>,
                                                InternalError(err), "freed", 1)
                                  ELSE SendDone(<<appended, err>>, Ok, "accepted", 0)
    /\ UNCHANGED <<live, registryVars, scratchVars, envVars, engineCb,
                   taskletsPending, pc, fault, call, dispatch, setLog,
                   datasetVars, sock, udp, delivered, borrows, addrVars>>

Min(a, b) == IF a <= b THEN a ELSE b

Max(a, b) == IF a >= b THEN a ELSE b

\* Byte i (from 1) of the socket's receive_buffer.
BufferByte(i) ==
    IF i <= Len(sock.receive_buffer) THEN sock.receive_buffer[i] ELSE 0

\* udp_receive_handler(context, message, message_info): the engine calls it
\* with the back-pointer it holds while the socket is in its list.  With the
\* socket's storage released the pointer dangles: the write may go unnoticed
\* or bring the program down.
udp_receive_handler(datagram) ==
    /\ Running
    /\ udp.open
    /\ delivered.count < MaxPending
    /\ delivered' = [count |-> delivered.count + 1, last |-> Some(datagram)]
    /\ IF SocketAlive
       THEN LET len == Min(U16(sock.max), Len(datagram.bytes)) IN
            /\ sock' = [sock EXCEPT
                   !.receive_buffer =
                       [i \in 1..Max(len, Len(sock.receive_buffer)) |->
                           IF i <= len THEN datagram.bytes[i] ELSE BufferByte(i)],
                   !.receive_port = datagram.port,
                   !.receive_from = datagram.from,
                   !.receive_len = len]
            /\ fault' = fault
       ELSE /\ sock' = sock
            /\ \E crashed \in BOOLEAN :
                  fault' = IF crashed THEN "udp_receive_handler: socket released"
                                      ELSE fault
    /\ UNCHANGED <<live, registryVars, scratchVars, envVars, engineCb,
                   taskletsPending, pc, call, dispatch, setLog,
                   datasetVars, udp, pool, op, borrows, addrVars>>

\* What receive() hands back, with what the socket held when it was called.
ReceiveDone(result, data, pending) ==
    Some([name |-> "receive", statuses |-> <<>>, result |-> result,
          data |-> data, had |-> sock.receive_len, pending |-> pending])

\* a receive that forgets the last sender when nothing is buffered
receive_clears_sender(data_len) ==
    /\ MainIdle /\ SocketAlive
    /\ LET len == sock.receive_len
           data == [i \in 1..data_len |-> 255]
       IN  IF len = 0
           THEN /\ op' = ReceiveDone(OkWith(<<0, UNSPECIFIED, 0>>), data, delivered)
                /\ sock' = [sock EXCEPT !.receive_from = UNSPECIFIED,
                                        !.receive_port = 0]
                /\ UNCHANGED <<fault, delivered>>
           ELSE IF len > data_len
           THEN /\ sock' = [sock EXCEPT !.receive_len = 0]
                /\ fault' = "receive: slice out of range"
                /\ UNCHANGED <<op, delivered>>
           ELSE /\ sock' = [sock EXCEPT !.receive_len = 0]
                /\ op' = ReceiveDone(
                            OkWith(<<len, sock.receive_from, sock.receive_port>>),
                            [i \in 1..data_len |->
                                IF i <= len THEN BufferByte(i) ELSE data[i]],
                            delivered)
                /\ delivered' = NoneDelivered
                /\ fault' = fault
    /\ UNCHANGED <<live, registryVars, scratchVars, envVars, engineCb,
                   taskletsPending, pc, call, dispatch, setLog,
                   datasetVars, udp, pool, borrows, addrVars>>

\* UdpSocket::receive(data), for a caller's buffer of data_len bytes.
receive(data_len) ==
    /\ MainIdle /\ SocketAlive
    /\ LET len == sock.receive_len
           data == [i \in 1..data_len |-> 255]
       IN  IF len = 0
           THEN /\ op' = ReceiveDone(OkWith(<<0, UNSPECIFIED, 0>>), data, delivered)
                /\ UNCHANGED <<sock, fault, delivered>>
           ELSE IF len > data_len
           THEN /\ sock' = [sock EXCEPT !.receive_len = 0]
                /\ fault' = "receive: slice out of range"
                /\ UNCHANGED <<op, delivered>>
           ELSE /\ sock' = [sock EXCEPT !.receive_len = 0]
                /\ op' = ReceiveDone(
                            OkWith(<<len, sock.receive_from, sock.receive_port>>),
                            [i \in 1..data_len |->
                                IF i <= len THEN BufferByte(i) ELSE data[i]],
                            delivered)
                /\ delivered' = NoneDelivered
                /\ fault' = fault
    /\ UNCHANGED <<live, registryVars, scratchVars, envVars, engineCb,
                   taskletsPending, pc, call, dispatch, setLog,
                   datasetVars, udp, pool, borrows, addrVars>>

\* OpenThread::ipv6_set_enabled(enabled)
ipv6_set_enabled(enabled) ==
    /\ MainIdle
    /\ \E status \in EngineStatuses :
          op' = Done("ipv6_set_enabled", <<status>>, checked(status))
    /\ UNCHANGED <<live, registryVars, scratchVars, envVars, engineCb,
                   taskletsPending, pc, fault, call, dispatch, setLog,
                   datasetVars, socketVars, borrows, addrVars>>

\* OpenThread::thread_set_enabled(enabled)
thread_set_enabled(enabled) ==
    /\ MainIdle
    /\ \E status \in EngineStatuses :
          op' = Done("thread_set_enabled", <<status>>, checked(status))
    /\ UNCHANGED <<live, registryVars, scratchVars, envVars, engineCb,
                   taskletsPending, pc, fault, call, dispatch, setLog,
                   datasetVars, socketVars, borrows, addrVars>>

\* One OpenThread value exists; no socket has been created yet.
SocketInit ==
    /\ live = 1
    /\ RADIO = Some("radio")
    /\ NETWORK_SETTINGS = None
    /\ CHANGE_CALLBACK = None
    /\ RCV_FRAME_PSDU = [i \in 1..RCV_FRAME_PSDU_LEN |-> 0]
    /\ RCV_FRAME = InitFrame
    /\ rxQueue = <<>>
    /\ timerDue = FALSE
    /\ millis = 0
    /\ engineCb = TRUE
    /\ taskletsPending = FALSE
    /\ pc = "idle"
    /\ fault = "none"
    /\ call = NoCall
    /\ dispatch = None
    /\ setLog = <<>>
    /\ NoDataset
    /\ NoSocket
    /\ NoAddrs

SocketNext ==
    \/ \E BUFFER_SIZE \in Capacities : get_udp_socket(BUFFER_SIZE)
    \/ \E port \in Ports : bind(port)
    \/ \E port \in Ports : open(port)
    \/ send
    \/ \E datagram \in Datagrams : udp_receive_handler(datagram)
    \/ \E data_len \in DataLens : receive(data_len)
    \/ close
    \/ UdpSocket_drop
    \/ \E enabled \in {TRUE} : ipv6_set_enabled(enabled)
    \/ \E enabled \in {FALSE} : thread_set_enabled(enabled)

SocketSpec == SocketInit /\ [][SocketNext]_vars

(***************************************************************************)
(* ipv6_get_unicast_addresses::<N>()                                       *)
(***************************************************************************)
MaxAddrs == 3

\* otNetifAddress entries of the engine's list: the address as its 16 bytes
\* in network order (mAddress.mFields.m8), mPrefixLength, mAddressOrigin
RawAddrs ==
    { [m8 |-> <<254, 128, 0, 0, 0, 0, 0, 0, 0, 0, 0, 0, 0, 0, 0, 1>>,
       mPrefixLength |-> 64, mAddressOrigin |-> 0],
      [m8 |-> <<253, 222, 173, 0, 190, 239, 0, 0, 0, 0, 0, 255, 254, 0, 252, 0>>,
       mPrefixLength |-> 64, mAddressOrigin |-> 1],
      [m8 |-> <<32, 1, 13, 184, 1, 2, 3, 4, 5, 6, 7, 8, 9, 10, 11, 12>>,
       mPrefixLength |-> 128, mAddressOrigin |-> 3] }

\* the lists the engine can hold; the empty list has a null head pointer
AddrLists == UNION { [1..n -> RawAddrs] : n \in 0..MaxAddrs }

\* the const generic N of the returned heapless::Vec
VecCapacities == 0..MaxAddrs

\* what a read through the null head pointer can find
WildAddrs ==
    { [m8 |-> [i \in 1..16 |-> 0], mPrefixLength |-> 0, mAddressOrigin |-> 0],
      [m8 |-> [i \in 1..16 |-> 255], mPrefixLength |-> 255, mAddressOrigin |-> 255] }

\* a.mAddress.mFields.m16: the union's view of the 16 bytes as eight u16 of
\* the little-endian target
m16(m8) == [i \in 1..8 |-> m8[2 * i - 1] + 256 * m8[2 * i]]

\* u16::to_be on the little-endian target: the two bytes swapped
to_be(x) == (x % 256) * 256 + (x \div 256)

\* Ipv6Addr::new(a, .., h): each segment stored high byte first
Ipv6Addr_new(segments) ==
    [i \in 1..16 |-> IF i % 2 = 1 THEN segments[(i + 1) \div 2] \div 256
                                   ELSE segments[i \div 2] % 256]

\* the NetworkInterfaceUnicastAddress built from the entry a
NetworkInterfaceUnicastAddress(a) ==
    LET octets == m16(a.m8) IN
    [address |-> Ipv6Addr_new([i \in 1..8 |-> to_be(octets[i])]),
     prefix  |-> a.mPrefixLength,
     origin  |-> a.mAddressOrigin]

\* the loop from the entry at position `at` of a non-empty list on: push,
\* break when the vector is full, break when mNext is null, else follow mNext
RECURSIVE unicast_loop(_, _, _, _)
unicast_loop(list, at, result, N) ==
    IF Len(result) >= N THEN result
    ELSE LET pushed == Append(result, NetworkInterfaceUnicastAddress(list[at])) IN
         IF at = Len(list) THEN pushed
         ELSE unicast_loop(list, at + 1, pushed, N)

AddrDone(N, result, null_deref) ==
    Some([N |-> N, result |-> result, null_deref |-> null_deref])

\* OpenThread::ipv6_get_unicast_addresses::<N>().  The head pointer is
\* dereferenced before anything is tested: with an empty list the read goes
\* through the null pointer, and either traps or finds whatever is there,
\* the next pointer it then follows included.
ipv6_get_unicast_addresses(N) ==
    /\ MainIdle
    /\ IF addrs # <<>>
       THEN /\ addrOut' = AddrDone(N, unicast_loop(addrs, 1, <<>>, N), FALSE)
            /\ fault' = fault
       ELSE \E trapped \in BOOLEAN, a \in WildAddrs, next_is_null \in BOOLEAN :
              IF trapped \/ (N > 0 /\ ~next_is_null)
              THEN /\ fault' = "ipv6_get_unicast_addresses: null pointer dereference"
                   /\ addrOut' = addrOut
              ELSE /\ fault' = fault
                   /\ addrOut' = AddrDone(N, unicast_loop(<<a>>, 1, <<>>, N), TRUE)
    /\ UNCHANGED <<live, registryVars, scratchVars, envVars, engineCb,
                   taskletsPending, pc, call, dispatch, setLog,
                   datasetVars, socketVars, op, borrows, addrs>>

\* One OpenThread value exists; the engine holds some address list.
AddrInit ==
    /\ live = 1
    /\ RADIO = Some("radio")
    /\ NETWORK_SETTINGS = None
    /\ CHANGE_CALLBACK = None
    /\ RCV_FRAME_PSDU = [i \in 1..RCV_FRAME_PSDU_LEN |-> 0]
    /\ RCV_FRAME = InitFrame
    /\ rxQueue = <<>>
    /\ timerDue = FALSE
    /\ millis = 0
    /\ engineCb = TRUE
    /\ taskletsPending = FALSE
    /\ pc = "idle"
    /\ fault = "none"
    /\ call = NoCall
    /\ dispatch = None
    /\ setLog = <<>>
    /\ NoDataset
    /\ NoSocket
    /\ addrs \in AddrLists
    /\ addrOut = None

AddrNext == \E N \in VecCapacities : ipv6_get_unicast_addresses(N)

AddrSpec == AddrInit /\ [][AddrNext]_vars

(***************************************************************************)
(* C10                                                                     *)
(***************************************************************************)
\* The presence bit of field number n (in declaration order) in the raw
\* dataset the engine was handed.
PresenceBit(n) == TestBit(dsEngine[1].mComponents, n)

\* A field that is present is in its own raw slot with its bit set; a field
\* that is absent leaves its slot zeroed and its bit clear.
InOwnSlot(field, n, slot, expected) ==
    IF field # None
        THEN PresenceBit(n) /\ dsEngine[1][slot] = expected
        ELSE ~PresenceBit(n) /\ dsEngine[1][slot] = ZeroRawDataset[slot]

\* C10: the raw dataset set_active_dataset submits holds every present field
\* in its own slot (active timestamp in mActiveTimestamp, pending timestamp
\* in mPendingTimestamp, and so on) with its presence bit set, and every
\* absent field's slot zeroed with its presence bit clear.
C10_EachFieldInItsOwnSlot ==
    dsEngine # None =>
        LET d == dsArg[1] IN
        /\ InOwnSlot(d.active_timestamp, 0, "mActiveTimestamp",
                     IF d.active_timestamp # None
                        THEN RawTimestamp(d.active_timestamp[1]) ELSE 0)
        /\ InOwnSlot(d.pending_timestamp, 1, "mPendingTimestamp",
                     IF d.pending_timestamp # None
                        THEN RawTimestamp(d.pending_timestamp[1]) ELSE 0)
        /\ InOwnSlot(d.network_key, 2, "mNetworkKey", Slot(d.network_key, 0))
        /\ InOwnSlot(d.network_name, 3, "mNetworkName",
                     IF d.network_name # None
                        THEN RawNetworkName(d.network_name[1]) ELSE 0)
        /\ InOwnSlot(d.extended_pan_id, 4, "mExtendedPanId",
                     Slot(d.extended_pan_id, 0))
        /\ InOwnSlot(d.mesh_local_prefix, 5, "mMeshLocalPrefix",
                     Slot(d.mesh_local_prefix, 0))
        /\ InOwnSlot(d.delay, 6, "mDelay", Slot(d.delay, 0))
        /\ InOwnSlot(d.pan_id, 7, "mPanId", Slot(d.pan_id, 0))
        /\ InOwnSlot(d.channel, 8, "mChannel", Slot(d.channel, 0))
        /\ InOwnSlot(d.pskc, 9, "mPskc", Slot(d.pskc, 0))
        /\ InOwnSlot(d.security_policy, 10, "mSecurityPolicy",
                     IF d.security_policy # None
                        THEN RawSecurityPolicy(d.security_policy[1]) ELSE 0)
        /\ InOwnSlot(d.channel_mask, 11, "mChannelMask",
                     Slot(d.channel_mask, 0))

\* The ten fields other than the two timestamps are in their own slots, and
\* the presence bits of the two timestamps follow the input.
OtherFieldsInTheirSlots ==
    dsEngine # None =>
        LET d == dsArg[1] IN
        /\ InOwnSlot(d.network_key, 2, "mNetworkKey", Slot(d.network_key, 0))
        /\ InOwnSlot(d.network_name, 3, "mNetworkName",
                     IF d.network_name # None
                        THEN RawNetworkName(d.network_name[1]) ELSE 0)
        /\ InOwnSlot(d.extended_pan_id, 4, "mExtendedPanId",
                     Slot(d.extended_pan_id, 0))
        /\ InOwnSlot(d.mesh_local_prefix, 5, "mMeshLocalPrefix",
                     Slot(d.mesh_local_prefix, 0))
        /\ InOwnSlot(d.delay, 6, "mDelay", Slot(d.delay, 0))
        /\ InOwnSlot(d.pan_id, 7, "mPanId", Slot(d.pan_id, 0))
        /\ InOwnSlot(d.channel, 8, "mChannel", Slot(d.channel, 0))
        /\ InOwnSlot(d.pskc, 9, "mPskc", Slot(d.pskc, 0))
        /\ InOwnSlot(d.security_policy, 10, "mSecurityPolicy",
                     IF d.security_policy # None
                        THEN RawSecurityPolicy(d.security_policy[1]) ELSE 0)
        /\ InOwnSlot(d.channel_mask, 11, "mChannelMask",
                     Slot(d.channel_mask, 0))
        /\ PresenceBit(0) = (d.active_timestamp # None)
        /\ PresenceBit(1) = (d.pending_timestamp # None)

(***************************************************************************)
(* C11, C12, C13: set_active_dataset followed by get_active_dataset, with  *)
(* an engine that keeps the raw dataset it accepted as it is.              *)
(***************************************************************************)
\* get_active_dataset returned Ok; the engine then held what a successful
\* set_active_dataset(dsArg) had submitted.
ReadBack == dsRead # None /\ dsRead[1].ok

TheRead == dsRead[1].value

\* C11: the dataset read back after set_active_dataset(v) has exactly the
\* fields present that v has, with equal values.
C11_RoundTripKeepsPresence ==
    ReadBack =>
        \A f \in DatasetFields :
            /\ (TheRead[f] # None) = (dsArg[1][f] # None)
            /\ dsArg[1][f] # None => TheRead[f] = dsArg[1][f]

\* C12: a network name of 0 to 16 bytes written by set_active_dataset is read
\* back equal: same length, no trailing NUL, no lost character.
C12_NetworkNameRoundTrip ==
    (ReadBack /\ dsArg[1].network_name # None) =>
        TheRead.network_name = dsArg[1].network_name

\* What the read side makes of a written name: the name cut or NUL-padded to
\* fifteen bytes, if that is still UTF-8.
NameAsRead(name) ==
    String_from_utf8([i \in 1..15 |-> IF i <= Len(name) THEN name[i] ELSE 0])

\* The name read back is the written one cut or padded to fifteen bytes.
NameReadIsFifteenBytes ==
    (ReadBack /\ dsArg[1].network_name # None) =>
        TheRead.network_name = NameAsRead(dsArg[1].network_name[1])

\* C13: a security policy written by set_active_dataset is read back with
\* the same nine flags, version threshold and rotation time.
C13_SecurityPolicyRoundTrip ==
    (ReadBack /\ dsArg[1].security_policy # None) =>
        TheRead.security_policy = dsArg[1].security_policy

\* The policy read back has the written flags and rotation time, and the
\* written version threshold reduced to its low three bits.
PolicyReadKeepsFlags ==
    (ReadBack /\ dsArg[1].security_policy # None) =>
        LET written == dsArg[1].security_policy[1] IN
        TheRead.security_policy =
            Some([written EXCEPT !.version_threshold_for_routing = @ % 8])

(***************************************************************************)
(* C14, C15: engine statuses and the Result of the operation.              *)
(***************************************************************************)
TheOp == op[1]

\* The operation's Result is Ok when every status it got from the engine is
\* 0, and otherwise InternalError of the first status that is not.
StatusSurfaced(o) ==
    LET bad == {i \in 1..Len(o.statuses) : o.statuses[i] # 0} IN
    IF bad = {}
        THEN o.result.ok
        ELSE /\ ~o.result.ok
             /\ o.result.code = o.statuses[CHOOSE i \in bad : \A j \in bad : i <= j]

\* C14: every operation that calls the engine returns success exactly when
\* every engine call returned status 0, and otherwise InternalError with the
\* engine's status; no status that is not 0 is ignored.
C14_EveryStatusSurfaced == op # None => StatusSurfaced(TheOp)

\* Operations other than new surface the statuses they get (a send that got
\* no message from the engine got no status at all).
StatusSurfacedAfterNew ==
    (op # None /\ TheOp.name # "new"
        /\ ~(TheOp.name = "send" /\ TheOp.message = "none"))
    => StatusSurfaced(TheOp)

\* C15: an InternalError(code) returned by any operation has code # 0.
C15_InternalErrorIsNonZero ==
    /\ (op # None /\ ~TheOp.result.ok) => TheOp.result.code # 0
    /\ (dsResult # None /\ ~dsResult[1].ok) => dsResult[1].code # 0
    /\ (dsRead # None /\ ~dsRead[1].ok) => dsRead[1].code # 0

(***************************************************************************)
(* C16                                                                     *)
(***************************************************************************)
\* C16: when send() has returned, the message it allocated is with the
\* engine, or was released exactly once; none stays allocated with nobody
\* holding it.
C16_SendNeverLeaks ==
    /\ pool = 0
    /\ (op # None /\ TheOp.name = "send" /\ TheOp.message # "none") =>
           \/ TheOp.message = "accepted" /\ TheOp.frees = 0
           \/ TheOp.message = "freed" /\ TheOp.frees = 1

\* A message the engine accepted is not released, and one it refused at the
\* submit step is released once.
SendReleasesRefusedMessage ==
    (op # None /\ TheOp.name = "send" /\ Len(TheOp.statuses) = 2) =>
        IF TheOp.statuses[2] = 0
            THEN TheOp.message = "accepted" /\ TheOp.frees = 0
            ELSE TheOp.message = "freed" /\ TheOp.frees = 1

(***************************************************************************)
(* C17                                                                     *)
(***************************************************************************)
AnyReceive == \E data_len \in DataLens : receive(data_len)

\* C17: receive() with nothing buffered returns length 0, the unspecified
\* address and port 0, writes nothing to the caller's buffer and leaves the
\* socket and the engine's side of it as they are, whether the socket was
\* never opened, is open or was closed.
C17_EmptyReceive ==
    [][(AnyReceive /\ sock.receive_len = 0) =>
          /\ op' # None /\ op'[1].name = "receive"
          /\ op'[1].result = OkWith(<<0, UNSPECIFIED, 0>>)
          /\ \A i \in 1..Len(op'[1].data) : op'[1].data[i] = 255
          /\ sock' = sock /\ udp' = udp /\ pool' = pool
          /\ fault' = fault]_vars

\* receive() found nothing buffered on an open socket that had delivered a
\* datagram before.
C17_Witness ==
    /\ SocketAlive /\ udp.open
    /\ op # None /\ TheOp.name = "receive" /\ TheOp.had = 0
    /\ Len(TheOp.data) > 0
    /\ sock.receive_port # 0

(***************************************************************************)
(* C18, C19                                                                *)
(***************************************************************************)
\* C18: the receive() after the handler stored a datagram returns the stored
\* length, that many bytes of the datagram and its sender, and empties the
\* socket, so that a receive() right after it returns length 0.
C18_StoredDatagramDeliveredOnce ==
    /\ fault # "receive: slice out of range"
    /\ (op # None /\ TheOp.name = "receive" /\ TheOp.had > 0) =>
          LET d == TheOp.pending.last[1] IN
          /\ TheOp.result = OkWith(<<TheOp.had, d.from, d.port>>)
          /\ \A i \in 1..TheOp.had : TheOp.data[i] = d.bytes[i]
    /\ (SocketAlive /\ delivered.count = 0) => sock.receive_len = 0

\* When the caller's buffer is long enough, a stored datagram is delivered
\* once, with its own sender.
DeliveredOnceIfBufferFits ==
    /\ (op # None /\ TheOp.name = "receive" /\ TheOp.had > 0) =>
          LET d == TheOp.pending.last[1] IN
          /\ TheOp.result = OkWith(<<TheOp.had, d.from, d.port>>)
          /\ \A i \in 1..TheOp.had : TheOp.data[i] = d.bytes[i]
    /\ (SocketAlive /\ delivered.count = 0) => sock.receive_len = 0

\* The handler's last datagram is in the socket, cut to n bytes.
StoredLength(n) ==
    /\ sock.receive_len = n
    /\ \A i \in 1..n : BufferByte(i) = delivered.last[1].bytes[i]
    /\ Len(sock.receive_buffer) <= sock.max

\* C19: the handler stores min(buffer capacity, datagram length) bytes and
\* records that number as the buffered length, for every capacity.
C19_HandlerStoresMinOfCapacityAndLength ==
    (Running /\ SocketAlive /\ delivered.count > 0) =>
        StoredLength(Min(sock.max, Len(delivered.last[1].bytes)))

\* What the handler stores: the capacity counts modulo 2^16.
HandlerStoresMinOfNarrowedCapacity ==
    (Running /\ SocketAlive /\ delivered.count > 0) =>
        StoredLength(Min(U16(sock.max), Len(delivered.last[1].bytes)))

C21_NoPointerAfterCloseOrDrop ==
    /\ sock.life = "dropped" => ~udp.open
    /\ (op # None /\ TheOp.name = "close") => ~udp.open
    /\ fault # "udp_receive_handler: socket released"

\* The engine gets the pointer only by an open step that succeeded, and a
\* close that succeeded takes it away.
PointerHeldOnlyAfterOpen ==
    /\ udp.open => sock.life # "unborn"
    /\ (op # None /\ TheOp.name = "close" /\ TheOp.result = Ok) => ~udp.open

(***************************************************************************)
(* C24                                                                     *)
(***************************************************************************)
\* C24: for a raw frame with any length prefix, process() does not fault:
\* the RSSI index does not underflow or leave the frame, the copy stays
\* within the 127-byte scratch buffer, and at most 127 bytes are forwarded.
C24_AnyLengthPrefixIsSafe ==
    /\ fault \notin {"process: index out of bounds", "process: slice out of range"}
    /\ RCV_FRAME.mLength <= RCV_FRAME_PSDU_LEN

\* With a length prefix from 1 to 127 the frame is forwarded: process()
\* faults only on a prefix of 0 or above 127.
FaultOnlyOnBadPrefix ==
    /\ RCV_FRAME.mLength <= RCV_FRAME_PSDU_LEN
    /\ fault \in {"process: index out of bounds", "process: slice out of range"} =>
          LET len == call.drained[Len(call.drained)].data[1] IN
          len = 0 \/ len > RCV_FRAME_PSDU_LEN

(***************************************************************************)
(* C25                                                                     *)
(***************************************************************************)
\* C25: when bind() has returned an error the socket is closed: the engine
\* does not have it in its list.
C25_FailedBindLeavesSocketClosed ==
    (op # None /\ TheOp.name = "bind" /\ ~TheOp.result.ok) => ~udp.open

\* A bind() that failed at the open step of a socket that was not open
\* leaves it closed.
FailedOpenStepLeavesSocketAsItWas ==
    (op # None /\ TheOp.name = "bind" /\ ~TheOp.result.ok /\ udp.open) =>
        \/ Len(TheOp.statuses) = 2
        \/ TheOp.statuses[1] # 0

(***************************************************************************)
(* C26                                                                     *)
(***************************************************************************)
\* C26: receive(data) does not fault whatever data.len() is, returns a
\* length of at most data.len(), and does not reset the buffered length
\* without delivering the datagram.
C26_ReceiveFitsCallerBuffer ==
    /\ fault # "receive: slice out of range"
    /\ (op # None /\ TheOp.name = "receive") =>
          TheOp.result.value[1] <= Len(TheOp.data)

\* A receive() that returns does so with a length that fits the caller's
\* buffer.
ReturnedLengthFits ==
    (op # None /\ TheOp.name = "receive") =>
        TheOp.result.value[1] <= Len(TheOp.data)

(***************************************************************************)
(* C27                                                                     *)
(***************************************************************************)
\* C27: after the handler ran one or more times with no receive() between,
\* receive() returns the last datagram only: its length (cut to the buffer
\* capacity), its bytes, its sender address and port.
C27_LatestDatagramWins ==
    /\ fault # "receive: slice out of range"
    /\ (op # None /\ TheOp.name = "receive" /\ TheOp.pending.count >= 1) =>
          LET d == TheOp.pending.last[1]
              n == Min(sock.max, Len(d.bytes))
          IN  /\ SocketAlive =>
                    TheOp.result = OkWith(<<n, d.from, d.port>>)
              /\ \A i \in 1..TheOp.result.value[1] : TheOp.data[i] = d.bytes[i]

\* What receive() returns when it does return a datagram is the last one
\* the handler stored, with nothing of an earlier one.
ReturnedDatagramIsTheLast ==
    (op # None /\ TheOp.name = "receive" /\ TheOp.had > 0) =>
        LET d == TheOp.pending.last[1] IN
        /\ TheOp.result = OkWith(<<TheOp.had, d.from, d.port>>)
        /\ TheOp.had <= Len(d.bytes)
        /\ \A i \in 1..TheOp.had : TheOp.data[i] = d.bytes[i]
        /\ \A i \in (TheOp.had + 1)..Len(TheOp.data) : TheOp.data[i] = 255

(***************************************************************************)
(* C22  run_tasklets() enters the engine's tasklet processing exactly once *)
(* when the pending flag is set and not at all when it is clear, and       *)
(* neither the call nor its return changes a registry slot, the frame      *)
(* buffer, the queue of received frames or the socket state.               *)
(***************************************************************************)
C22_TaskletsRunIffPending ==
    [][ /\ run_tasklets =>
             /\ pc' = (IF taskletsPending THEN "tasklets" ELSE "idle")
             /\ UNCHANGED <<registryVars, scratchVars, rxQueue, socketVars>>
        /\ (pc = "tasklets" /\ pc' # pc) =>
             /\ pc' = "idle"
             /\ UNCHANGED <<registryVars, scratchVars, rxQueue, socketVars>>
        /\ (pc' = "tasklets" /\ pc' # pc) => (pc = "idle" /\ taskletsPending)
      ]_vars

C22_Witness ==
    /\ pc = "tasklets" /\ taskletsPending /\ fault = "none"
    /\ RADIO # None /\ NETWORK_SETTINGS # None

(***************************************************************************)
(* C23  While the engine's frame-received entry point runs, process()      *)
(* holds neither the critical section nor the borrow of the radio slot, so *)
(* code nested in that call borrows the radio, settings and callback slots *)
(* without a double-borrow fault.                                          *)
(***************************************************************************)
C23_NothingHeldWhileForwarding ==
    /\ pc = "rxdone" => borrows.main = {}
    /\ fault # "already borrowed"

C23_Witness ==
    /\ pc = "rxdone" /\ fault = "none"
    /\ borrows.main = {}
    /\ borrows.nested = Some("RADIO")

(***************************************************************************)
(* C28  ipv6_get_unicast_addresses::<N>() returns, in list order, the      *)
(* first min(N, L) entries of the engine's list of length L, for every     *)
(* L >= 0 and N >= 0, and with an empty list it returns an empty vector    *)
(* without dereferencing the null head pointer.                            *)
(***************************************************************************)
\* entry i of the engine's list as the caller is to see it
ListedAddress(i) ==
    [address |-> addrs[i].m8,
     prefix  |-> addrs[i].mPrefixLength,
     origin  |-> addrs[i].mAddressOrigin]

TheAddrs == addrOut[1]

FirstEntriesReturned ==
    /\ Len(TheAddrs.result) = Min(TheAddrs.N, Len(addrs))
    /\ \A i \in 1..Len(TheAddrs.result) : TheAddrs.result[i] = ListedAddress(i)

C28_FirstEntriesOfAnyList ==
    /\ fault # "ipv6_get_unicast_addresses: null pointer dereference"
    /\ addrOut # None => (~TheAddrs.null_deref /\ FirstEntriesReturned)

\* With at least one entry in the engine's list the call does return the
\* first min(N, L) entries in order, and no null pointer is dereferenced.
FirstEntriesOfNonEmptyList ==
    addrs # <<>> =>
        /\ fault = "none"
        /\ addrOut # None => (~TheAddrs.null_deref /\ FirstEntriesReturned)

====
